---- MODULE Spec2Model ----
(***************************************************************************)
(* A model of the Firebase REST client of src/firebase.go: the client F    *)
(* (a location in the remote tree), its operations Value, Child, Push,     *)
(* Set, Update and Remove, the Api they call, and the HTTP implementation  *)
(* of that Api, client.Call.                                               *)
(*                                                                         *)
(* Go strings and byte slices are sequences of one-character strings.      *)
(* The character "H" stands for the scheme and host of a Firebase URL.     *)
(***************************************************************************)
EXTENDS Integers, Sequences, FiniteSets, TLC

(***************************************************************************)
(* Bounds of the model.                                                    *)
(***************************************************************************)
\* the deepest Url (number of "/") of a client the caller keeps and calls again
MaxDepth == 1
\* the number of keys the in-memory Api hands out before it reports an error
MaxKeys == 2

(***************************************************************************)
(* Strings.                                                                *)
(***************************************************************************)
\* the characters of the model, in byte order
Alphabet ==
  << " ", "\"", "%", "&", "+", ",", ".", "/",
     "0", "1", "2", "3", "4", "5", "6", "7", "8", "9",
     ":", "=", "?", "A", "B", "C", "D", "F", "H", "[", "\\", "]",
     "a", "b", "e", "f", "h", "j", "k", "l", "m", "n", "o", "q", "r", "s",
     "t", "u", "x", "{", "}" >>

Ord(c) == CHOOSE i \in 1..Len(Alphabet) : Alphabet[i] = c

Digits == <<"0", "1", "2", "3", "4", "5", "6", "7", "8", "9">>
IsDigit(c) == \E i \in 1..10 : Digits[i] = c
DigitVal(c) == (CHOOSE i \in 1..10 : Digits[i] = c) - 1

\* strings.HasSuffix
HasSuffix(s, suf) ==
  /\ Len(s) >= Len(suf)
  /\ SubSeq(s, Len(s) - Len(suf) + 1, Len(s)) = suf

HasPrefix(s, pre) ==
  /\ Len(s) >= Len(pre)
  /\ SubSeq(s, 1, Len(pre)) = pre

Drop(s, n) == SubSeq(s, n + 1, Len(s))

\* the order of Go strings (byte-wise), which sort.Strings uses
RECURSIVE StrLess(_, _)
StrLess(a, b) ==
  IF b = <<>> THEN FALSE
  ELSE IF a = <<>> THEN TRUE
  ELSE IF Head(a) = Head(b) THEN StrLess(Tail(a), Tail(b))
  ELSE Ord(Head(a)) < Ord(Head(b))

\* the position of the first c in s, 0 when there is none
IndexOf(s, c) ==
  IF \E i \in 1..Len(s) : s[i] = c
  THEN CHOOSE i \in 1..Len(s) : s[i] = c /\ \A j \in 1..(i - 1) : s[j] # c
  ELSE 0

(***************************************************************************)
(* Go values (interface{}).  One record shape for every value:             *)
(*   t  the dynamic type: "nil", "bool", "float64", "int", "string",       *)
(*      "slice" ([]interface{}), "map" (map[string]interface{}), "chan"    *)
(*   n  the number (or 1/0 for a bool), s the string,                      *)
(*   k  the keys of a map in sorted order, e the elements of a slice or    *)
(*      the values of a map, in the order of k.                            *)
(***************************************************************************)
Val(t, n, s, k, e) == [t |-> t, n |-> n, s |-> s, k |-> k, e |-> e]
VNil == Val("nil", 0, <<>>, <<>>, <<>>)
VBool(b) == Val("bool", IF b THEN 1 ELSE 0, <<>>, <<>>, <<>>)
VFloat(n) == Val("float64", n, <<>>, <<>>, <<>>)
VInt(n) == Val("int", n, <<>>, <<>>, <<>>)
VStr(s) == Val("string", 0, s, <<>>, <<>>)
VSlice(e) == Val("slice", 0, <<>>, <<>>, e)
VMap(k, e) == Val("map", 0, <<>>, k, e)
VChan == Val("chan", 0, <<>>, <<>>, <<>>)

(***************************************************************************)
(* Errors.  nil is NoErr; an error carries its message.                    *)
(***************************************************************************)
NoErr == [isErr |-> FALSE, msg |-> <<>>]
Err(msg) == [isErr |-> TRUE, msg |-> msg]
\* the errors of encoding/json: an unsupported type, and a failed decode
ErrUnsupportedType == Err(<<"j", "s", "o", "n", ":", " ", "t">>)
ErrDecode == Err(<<"j", "s", "o", "n", ":", " ", "x">>)

(***************************************************************************)
(* json.Marshal.                                                           *)
(***************************************************************************)
RECURSIVE FormatNat(_)
FormatNat(n) ==
  IF n < 10 THEN <<Digits[n + 1]>>
  ELSE FormatNat(n \div 10) \o <<Digits[(n % 10) + 1]>>

\* a string literal: the quote and the backslash are escaped
RECURSIVE EscapeString(_)
EscapeString(s) ==
  IF s = <<>> THEN <<>>
  ELSE (IF Head(s) \in {"\"", "\\"} THEN <<"\\", Head(s)>> ELSE <<Head(s)>>)
       \o EscapeString(Tail(s))

Quote(s) == <<"\"">> \o EscapeString(s) \o <<"\"">>

\* json.Marshal fails on a value that holds a channel
RECURSIVE Marshalable(_)
Marshalable(v) ==
  /\ v.t # "chan"
  /\ \A i \in 1..Len(v.e) : Marshalable(v.e[i])

RECURSIVE Encode(_)
Encode(v) ==
  CASE v.t = "nil" -> <<"n", "u", "l", "l">>
    [] v.t = "bool" -> IF v.n = 1 THEN <<"t", "r", "u", "e">>
                       ELSE <<"f", "a", "l", "s", "e">>
    [] v.t \in {"float64", "int"} -> FormatNat(v.n)
    [] v.t = "string" -> Quote(v.s)
    [] v.t = "slice" ->
         LET RECURSIVE Elems(_)
             Elems(i) ==
               IF i > Len(v.e) THEN <<>>
               ELSE (IF i > 1 THEN <<",">> ELSE <<>>) \o Encode(v.e[i]) \o Elems(i + 1)
         IN <<"[">> \o Elems(1) \o <<"]">>
    [] v.t = "map" ->
         LET RECURSIVE Members(_)
             Members(i) ==
               IF i > Len(v.e) THEN <<>>
               ELSE (IF i > 1 THEN <<",">> ELSE <<>>)
                    \o Quote(v.k[i]) \o <<":">> \o Encode(v.e[i]) \o Members(i + 1)
         IN <<"{">> \o Members(1) \o <<"}">>
    [] OTHER -> <<>>

\* json.Marshal(value): the bytes and the error
Marshal(v) ==
  IF Marshalable(v) THEN [body |-> Encode(v), err |-> NoErr]
  ELSE [body |-> <<>>, err |-> ErrUnsupportedType]

(***************************************************************************)
(* json.Unmarshal into an interface{}: a recursive-descent parse of the    *)
(* JSON forms the model's bodies use (literals, natural numbers, strings   *)
(* with \" and \\ escapes, arrays, objects).                               *)
(***************************************************************************)
PFail == [ok |-> FALSE, v |-> VNil, rest |-> <<>>]
POk(v, rest) == [ok |-> TRUE, v |-> v, rest |-> rest]

ParseLit(s, lit, v) ==
  IF HasPrefix(s, lit) THEN POk(v, Drop(s, Len(lit))) ELSE PFail

\* a number: 0, or a digit 1-9 followed by digits
RECURSIVE ParseDigits(_, _)
ParseDigits(s, acc) ==
  IF s # <<>> /\ IsDigit(Head(s))
  THEN ParseDigits(Tail(s), acc * 10 + DigitVal(Head(s)))
  ELSE POk(VFloat(acc), s)

ParseNum(s) ==
  IF Head(s) = "0" THEN POk(VFloat(0), Tail(s)) ELSE ParseDigits(s, 0)

\* the rest of a string literal, after its opening quote
RECURSIVE ParseStr(_, _)
ParseStr(s, acc) ==
  IF s = <<>> THEN PFail
  ELSE IF Head(s) = "\"" THEN POk(VStr(acc), Tail(s))
  ELSE IF Head(s) = "\\"
       THEN IF Len(s) >= 2 /\ s[2] \in {"\"", "\\"}
            THEN ParseStr(Drop(s, 2), Append(acc, s[2]))
            ELSE PFail
  ELSE ParseStr(Tail(s), Append(acc, Head(s)))

\* a map with key k set to v: a repeated key keeps the last value
RECURSIVE MapPut(_, _, _, _)
MapPut(ks, vs, k, v) ==
  IF ks = <<>> THEN [k |-> <<k>>, e |-> <<v>>]
  ELSE IF Head(ks) = k THEN [k |-> ks, e |-> <<v>> \o Tail(vs)]
  ELSE IF StrLess(k, Head(ks)) THEN [k |-> <<k>> \o ks, e |-> <<v>> \o vs]
  ELSE LET Under(r) == [k |-> <<Head(ks)>> \o r.k, e |-> <<Head(vs)>> \o r.e]
       IN Under(MapPut(Tail(ks), Tail(vs), k, v))

RECURSIVE ParseValue(_), ParseElems(_, _), ParseMembers(_, _, _)
ParseValue(s) ==
  IF s = <<>> THEN PFail
  ELSE CASE Head(s) = "n" -> ParseLit(s, <<"n", "u", "l", "l">>, VNil)
         [] Head(s) = "t" -> ParseLit(s, <<"t", "r", "u", "e">>, VBool(TRUE))
         [] Head(s) = "f" -> ParseLit(s, <<"f", "a", "l", "s", "e">>, VBool(FALSE))
         [] IsDigit(Head(s)) -> ParseNum(s)
         [] Head(s) = "\"" -> ParseStr(Tail(s), <<>>)
         [] Head(s) = "[" ->
              IF Len(s) >= 2 /\ s[2] = "]" THEN POk(VSlice(<<>>), Drop(s, 2))
              ELSE ParseElems(Tail(s), <<>>)
         [] Head(s) = "{" ->
              IF Len(s) >= 2 /\ s[2] = "}" THEN POk(VMap(<<>>, <<>>), Drop(s, 2))
              ELSE ParseMembers(Tail(s), <<>>, <<>>)
         [] OTHER -> PFail

ParseElems(s, acc) ==
  LET After(r) ==
        IF ~r.ok \/ r.rest = <<>> THEN PFail
        ELSE IF Head(r.rest) = "," THEN ParseElems(Tail(r.rest), Append(acc, r.v))
        ELSE IF Head(r.rest) = "]" THEN POk(VSlice(Append(acc, r.v)), Tail(r.rest))
        ELSE PFail
  IN After(ParseValue(s))

ParseMembers(s, ks, vs) ==
  LET Put(r, m) ==
        IF Head(r.rest) = "," THEN ParseMembers(Tail(r.rest), m.k, m.e)
        ELSE IF Head(r.rest) = "}" THEN POk(VMap(m.k, m.e), Tail(r.rest))
        ELSE PFail
      AfterValue(key, r) ==
        IF ~r.ok \/ r.rest = <<>> THEN PFail
        ELSE Put(r, MapPut(ks, vs, key.v.s, r.v))
      AfterKey(key) ==
        IF ~key.ok \/ key.rest = <<>> \/ Head(key.rest) # ":" THEN PFail
        ELSE AfterValue(key, ParseValue(Tail(key.rest)))
  IN IF s = <<>> \/ Head(s) # "\"" THEN PFail
     ELSE AfterKey(ParseStr(Tail(s), <<>>))

\* json.Unmarshal(data, &v) with v a nil interface{}: the value and the error
Unmarshal(data) ==
  LET Parsed(r) ==
        IF r.ok /\ r.rest = <<>> THEN [v |-> r.v, err |-> NoErr]
        ELSE [v |-> VNil, err |-> ErrDecode]
  IN Parsed(ParseValue(data))

\* json.Unmarshal(data, &r) with r a nil map[string]string: a JSON null leaves
\* r nil, an object must hold strings (a null member is the empty string)
UnmarshalStringMap(data) ==
  LET Decoded(r) ==
        IF r.err.isErr THEN [k |-> <<>>, e |-> <<>>, err |-> r.err]
        ELSE IF r.v.t = "nil" THEN [k |-> <<>>, e |-> <<>>, err |-> NoErr]
        ELSE IF r.v.t = "map"
                /\ \A i \in 1..Len(r.v.e) : r.v.e[i].t \in {"string", "nil"}
             THEN [k |-> r.v.k, e |-> [i \in 1..Len(r.v.e) |-> r.v.e[i].s],
                   err |-> NoErr]
        ELSE [k |-> <<>>, e |-> <<>>, err |-> ErrDecode]
  IN Decoded(Unmarshal(data))

\* r[key] of a map[string]string: the empty string when the key is absent
MapGet(m, key) ==
  IF \E i \in 1..Len(m.k) : m.k[i] = key
  THEN m.e[CHOOSE i \in 1..Len(m.k) : m.k[i] = key]
  ELSE <<>>

(***************************************************************************)
(* map[string]string (params, url.Values with one value per key): the keys *)
(* in sorted order and their values.  A nil map is the empty map.          *)
(***************************************************************************)
NoParams == [k |-> <<>>, e |-> <<>>]
HasKey(m, key) == \E i \in 1..Len(m.k) : m.k[i] = key

\* every entry of src set in dst, in turn (qs.Set(k, v) for k, v := range src)
RECURSIVE SetAll(_, _, _)
SetAll(dst, src, i) ==
  IF i > Len(src.k) THEN dst
  ELSE SetAll(MapPut(dst.k, dst.e, src.k[i], src.e[i]), src, i + 1)

\* a map without key
RECURSIVE MapDel(_, _, _)
MapDel(ks, vs, key) ==
  IF ks = <<>> THEN NoParams
  ELSE IF Head(ks) = key THEN [k |-> Tail(ks), e |-> Tail(vs)]
  ELSE LET Under(r) == [k |-> <<Head(ks)>> \o r.k, e |-> <<Head(vs)>> \o r.e]
       IN Under(MapDel(Tail(ks), Tail(vs), key))

(***************************************************************************)
(* net/url: QueryEscape and Values.Encode.                                 *)
(***************************************************************************)
Unreserved ==
  {"0", "1", "2", "3", "4", "5", "6", "7", "8", "9", ".", "A", "B", "C", "D",
   "F", "H",
   "a", "b", "e", "f", "h", "j", "k", "l", "m", "n", "o", "q", "r", "s", "t",
   "u", "x"}

\* the escape of one character: a space is "+", a reserved character %XX
EscapeChar(c) ==
  CASE c \in Unreserved -> <<c>>
    [] c = " " -> <<"+">>
    [] c = "\"" -> <<"%", "2", "2">>
    [] c = "%" -> <<"%", "2", "5">>
    [] c = "&" -> <<"%", "2", "6">>
    [] c = "+" -> <<"%", "2", "B">>
    [] c = "," -> <<"%", "2", "C">>
    [] c = "/" -> <<"%", "2", "F">>
    [] c = ":" -> <<"%", "3", "A">>
    [] c = "=" -> <<"%", "3", "D">>
    [] c = "?" -> <<"%", "3", "F">>
    [] c = "[" -> <<"%", "5", "B">>
    [] c = "\\" -> <<"%", "5", "C">>
    [] c = "]" -> <<"%", "5", "D">>
    [] c = "{" -> <<"%", "7", "B">>
    [] c = "}" -> <<"%", "7", "D">>

RECURSIVE QueryEscape(_)
QueryEscape(s) ==
  IF s = <<>> THEN <<>> ELSE EscapeChar(Head(s)) \o QueryEscape(Tail(s))

\* url.Values.Encode: key=value pairs in key order, joined by "&"
RECURSIVE EncodeFrom(_, _)
EncodeFrom(qs, i) ==
  IF i > Len(qs.k) THEN <<>>
  ELSE (IF i > 1 THEN <<"&">> ELSE <<>>)
       \o QueryEscape(qs.k[i]) \o <<"=">> \o QueryEscape(qs.e[i])
       \o EncodeFrom(qs, i + 1)

QueryEncode(qs) == EncodeFrom(qs, 1)

(***************************************************************************)
(* The HTTP implementation of Api: client.Call.                            *)
(***************************************************************************)
\* suffix is the Firebase suffix for invoking their API via HTTP
suffix == <<".", "j", "s", "o", "n">>
AuthKey == <<"a", "u", "t", "h">>

\* what the network and the server do with one request: httpClient.Do fails,
\* reading the body fails, or a response with a status and a body arrives
NetDoErr == [kind |-> "doerr", status |-> 0, body |-> <<"d">>]
NetReadErr == [kind |-> "readerr", status |-> 0, body |-> <<"r">>]
NetResp(status, body) == [kind |-> "resp", status |-> status, body |-> body]
NoNet == [kind |-> "none", status |-> 0, body |-> <<>>]

\* the result of a Call: the bytes (nilRes: the nil slice), the error, and
\* the address the HTTP request went to (sent: a request was made)
CallResult(res, nilRes, err, url, sent) ==
  [res |-> res, nilRes |-> nilRes, err |-> err, url |-> url, sent |-> sent]

\* ClientQuery with the token set after the params: the token wins
ClientQueryAuthLast(auth, params) ==
  LET WithAuth(qs) == IF Len(auth) > 0 THEN MapPut(qs.k, qs.e, AuthKey, auth) ELSE qs
  IN WithAuth(SetAll(NoParams, params, 1))

\* the query string values: auth when it is not empty, then every param
ClientQuery(auth, params) ==
  SetAll(IF Len(auth) > 0 THEN MapPut(<<>>, <<>>, AuthKey, auth) ELSE NoParams,
         params, 1)

\* the address of the request
ClientAddress(path, auth, params) ==
  LET p1 == IF ~HasSuffix(path, <<"/">>) THEN path \o <<"/">> ELSE path
      p2 == p1 \o suffix
      WithQuery(qs) == IF Len(qs.k) > 0 THEN p2 \o <<"?">> \o QueryEncode(qs) ELSE p2
  IN WithQuery(ClientQuery(auth, params))

\* ClientStatus with the comparison off by one: a 400 is no error
ClientStatusAbove400(status, body, url) ==
  IF status > 400 THEN CallResult(<<>>, TRUE, Err(body), url, TRUE)
  ELSE CallResult(body, FALSE, NoErr, url, TRUE)

\* the status check of a response whose body has been read
ClientStatus(status, body, url) ==
  IF status >= 400 THEN CallResult(<<>>, TRUE, Err(body), url, TRUE)
  ELSE CallResult(body, FALSE, NoErr, url, TRUE)

\* http.NewRequest does not fail on the addresses of the model: they hold no
\* escape and no control character
ClientCall(method, path, auth, body, params, net) ==
  LET Do(url) ==
        IF net.kind \in {"doerr", "readerr"}
        THEN CallResult(<<>>, TRUE, Err(net.body), url, TRUE)
        ELSE ClientStatus(net.status, net.body, url)
  IN Do(ClientAddress(path, auth, params))

(***************************************************************************)
(* An Api for tests, backed by an in-memory store keyed by address: PUT    *)
(* and PATCH store the body, GET returns the stored body (null when there  *)
(* is none), DELETE forgets it, and POST answers with a new key, of which  *)
(* it has MaxKeys to hand out.                                             *)
(***************************************************************************)
NullBody == <<"n", "u", "l", "l">>
NameKey == <<"n", "a", "m", "e">>
ErrFull == Err(<<"f", "u", "l", "l">>)
PushKey(n) == <<"k">> \o FormatNat(n)

MemResult(res, nilRes, err, w) ==
  [res |-> res, nilRes |-> nilRes, err |-> err, url |-> <<>>, sent |-> FALSE,
   world |-> w]

MemCall(method, path, auth, body, params, w) ==
  CASE method = "GET" ->
         MemResult(IF HasKey(w.store, path) THEN MapGet(w.store, path) ELSE NullBody,
                   FALSE, NoErr, w)
    [] method \in {"PUT", "PATCH"} ->
         MemResult(body, FALSE, NoErr,
                   [w EXCEPT !.store = MapPut(w.store.k, w.store.e, path, body)])
    [] method = "DELETE" ->
         MemResult(NullBody, FALSE, NoErr,
                   [w EXCEPT !.store = MapDel(w.store.k, w.store.e, path)])
    [] method = "POST" ->
         IF w.nextKey > MaxKeys THEN MemResult(<<>>, TRUE, ErrFull, w)
         ELSE MemResult(Encode(VMap(<<NameKey>>, <<VStr(PushKey(w.nextKey))>>)),
                        FALSE, NoErr, [w EXCEPT !.nextKey = w.nextKey + 1])

(***************************************************************************)
(* f.api.Call: the call, as the client made it and as it ended.            *)
(***************************************************************************)
ApiCall(api, method, path, auth, body, nilBody, params, net, w) ==
  LET Made(c) ==
        [method |-> method, path |-> path, auth |-> auth, body |-> body,
         nilBody |-> nilBody, params |-> params, net |-> net,
         res |-> c.res, nilRes |-> c.nilRes, err |-> c.err,
         url |-> c.url, sent |-> c.sent,
         world |-> IF api = "client" THEN w ELSE c.world]
  IN Made(IF api = "client"
          THEN ClientCall(method, path, auth, body, params, net)
          ELSE MemCall(method, path, auth, body, params, w))

(***************************************************************************)
(* F, the Firebase client: Url, Auth, api and value.  A nil *F is NilF.    *)
(***************************************************************************)
MkF(Url, Auth, api, value) ==
  [isNil |-> FALSE, Url |-> Url, Auth |-> Auth, api |-> api, value |-> value]
NilF == [isNil |-> TRUE, Url |-> <<>>, Auth |-> <<>>, api |-> "", value |-> VNil]

\* a call as the log of an operation keeps it
Logged(c) ==
  [method |-> c.method, path |-> c.path, auth |-> c.auth, body |-> c.body,
   nilBody |-> c.nilBody, params |-> c.params, net |-> c.net,
   res |-> c.res, nilRes |-> c.nilRes, err |-> c.err, url |-> c.url,
   sent |-> c.sent]

\* what an operation did: the *F and the error it returned (val: the value
\* Value returned), the receiver after it, the calls it made to the Api in
\* order, and the state of the in-memory Api after it
Outcome(ret, err, val, recv, calls, w) ==
  [ret |-> ret, err |-> err, val |-> val, recv |-> recv, calls |-> calls,
   world |-> w]

\* Child without the check of the decode: a body that is no JSON gives a
\* client without a value
ChildIgnoresDecodeError(f, path, params, net, w) ==
  LET u == f.Url \o <<"/">> \o path
      Decoded(c, d) ==
        Outcome(MkF(u, f.Auth, f.api, d.v), NoErr, VNil, f, <<Logged(c)>>, c.world)
      Called(c) ==
        IF c.err.isErr THEN Outcome(NilF, NoErr, VNil, f, <<Logged(c)>>, c.world)
        ELSE Decoded(c, Unmarshal(c.res))
  IN Called(ApiCall(f.api, "GET", u, f.Auth, <<>>, TRUE, params, net, w))

\* Child that asks for the Url and the path with no "/" between them
ChildFlatUrl(f, path, params, net, w) ==
  LET u == f.Url \o path
      Decoded(c, d) ==
        IF d.err.isErr THEN Outcome(NilF, NoErr, VNil, f, <<Logged(c)>>, c.world)
        ELSE Outcome(MkF(u, f.Auth, f.api, d.v), NoErr, VNil, f, <<Logged(c)>>, c.world)
      Called(c) ==
        IF c.err.isErr THEN Outcome(NilF, NoErr, VNil, f, <<Logged(c)>>, c.world)
        ELSE Decoded(c, Unmarshal(c.res))
  IN Called(ApiCall(f.api, "GET", u, f.Auth, <<>>, TRUE, params, net, w))

\* Child returns a populated pointer for a given path, nil when the path
\* cannot be found (v, the value to decode into, is the nil interface)
Child(f, path, params, net, w) ==
  LET u == f.Url \o <<"/">> \o path
      Decoded(c, d) ==
        IF d.err.isErr THEN Outcome(NilF, NoErr, VNil, f, <<Logged(c)>>, c.world)
        ELSE Outcome(MkF(u, f.Auth, f.api, d.v), NoErr, VNil, f, <<Logged(c)>>, c.world)
      Called(c) ==
        IF c.err.isErr THEN Outcome(NilF, NoErr, VNil, f, <<Logged(c)>>, c.world)
        ELSE Decoded(c, Unmarshal(c.res))
  IN Called(ApiCall(f.api, "GET", u, f.Auth, <<>>, TRUE, params, net, w))

\* Value returns the value of the current Url.  The look-up assigns the
\* child to the local f: the receiver itself keeps its value
Value(f, net, w) ==
  LET Looked(c) ==
        IF c.ret.isNil THEN Outcome(NilF, NoErr, VNil, f, c.calls, c.world)
        ELSE Outcome(NilF, NoErr, c.ret.value, f, c.calls, c.world)
  IN IF f.value = VNil THEN Looked(Child(f, <<>>, NoParams, net, w))
     ELSE Outcome(NilF, NoErr, f.value, f, <<>>, w)

\* Push that reads the field "key" of the answer, not "name"
PushReadsKeyField(f, value, params, net, w) ==
  LET Answered(c, r) ==
        IF r.err.isErr THEN Outcome(NilF, r.err, VNil, f, <<Logged(c)>>, c.world)
        ELSE Outcome(MkF(f.Url \o <<"/">> \o MapGet(r, <<"k", "e", "y">>), f.Auth, f.api, value),
                     NoErr, VNil, f, <<Logged(c)>>, c.world)
      Called(c) ==
        IF c.err.isErr THEN Outcome(NilF, c.err, VNil, f, <<Logged(c)>>, c.world)
        ELSE Answered(c, UnmarshalStringMap(c.res))
      Encoded(m) ==
        IF m.err.isErr THEN Outcome(NilF, m.err, VNil, f, <<>>, w)
        ELSE Called(ApiCall(f.api, "POST", f.Url, f.Auth, m.body, FALSE, params, net, w))
  IN Encoded(Marshal(value))

\* Push that keeps the pushed value in the receiver too
PushCachesInReceiver(f, value, params, net, w) ==
  LET g == [f EXCEPT !.value = value]
      Answered(c, r) ==
        IF r.err.isErr THEN Outcome(NilF, r.err, VNil, f, <<Logged(c)>>, c.world)
        ELSE Outcome(MkF(f.Url \o <<"/">> \o MapGet(r, NameKey), f.Auth, f.api, value),
                     NoErr, VNil, g, <<Logged(c)>>, c.world)
      Called(c) ==
        IF c.err.isErr THEN Outcome(NilF, c.err, VNil, f, <<Logged(c)>>, c.world)
        ELSE Answered(c, UnmarshalStringMap(c.res))
      Encoded(m) ==
        IF m.err.isErr THEN Outcome(NilF, m.err, VNil, f, <<>>, w)
        ELSE Called(ApiCall(f.api, "POST", f.Url, f.Auth, m.body, FALSE, params, net, w))
  IN Encoded(Marshal(value))

\* Push creates a new value under the current root url
Push(f, value, params, net, w) ==
  LET Answered(c, r) ==
        IF r.err.isErr THEN Outcome(NilF, r.err, VNil, f, <<Logged(c)>>, c.world)
        ELSE Outcome(MkF(f.Url \o <<"/">> \o MapGet(r, NameKey), f.Auth, f.api, value),
                     NoErr, VNil, f, <<Logged(c)>>, c.world)
      Called(c) ==
        IF c.err.isErr THEN Outcome(NilF, c.err, VNil, f, <<Logged(c)>>, c.world)
        ELSE Answered(c, UnmarshalStringMap(c.res))
      Encoded(m) ==
        IF m.err.isErr THEN Outcome(NilF, m.err, VNil, f, <<>>, w)
        ELSE Called(ApiCall(f.api, "POST", f.Url, f.Auth, m.body, FALSE, params, net, w))
  IN Encoded(Marshal(value))

\* Set overwrites the value at the specified path
Set(f, path, value, params, net, w) ==
  LET u == f.Url \o <<"/">> \o path
      Answered(c, r) ==
        IF r.err.isErr THEN Outcome(NilF, r.err, VNil, f, <<Logged(c)>>, c.world)
        ELSE Outcome(MkF(u, f.Auth, f.api, r.v), NoErr, VNil, f, <<Logged(c)>>, c.world)
      Called(c) ==
        IF c.err.isErr THEN Outcome(NilF, c.err, VNil, f, <<Logged(c)>>, c.world)
        ELSE IF Len(c.res) > 0 THEN Answered(c, Unmarshal(c.res))
        ELSE Outcome(MkF(u, f.Auth, f.api, VNil), NoErr, VNil, f, <<Logged(c)>>, c.world)
      Encoded(m) ==
        IF m.err.isErr THEN Outcome(NilF, m.err, VNil, f, <<>>, w)
        ELSE Called(ApiCall(f.api, "PUT", u, f.Auth, m.body, FALSE, params, net, w))
  IN Encoded(Marshal(value))

\* Update that never clears the value
UpdateKeepsValue(f, path, value, params, net, w) ==
  LET Called(c) ==
        Outcome(NilF, c.err, VNil, f,
                <<Logged(c)>>, c.world)
      Encoded(m) ==
        IF m.err.isErr THEN Outcome(NilF, m.err, VNil, f, <<>>, w)
        ELSE Called(ApiCall(f.api, "PATCH", f.Url \o <<"/">> \o path, f.Auth, m.body,
                            FALSE, params, net, w))
  IN Encoded(Marshal(value))

\* Update that clears the value only when the call returned no error
UpdateClearsOnSuccess(f, path, value, params, net, w) ==
  LET Called(c) ==
        Outcome(NilF, c.err, VNil, IF Len(path) = 0 /\ ~c.err.isErr THEN [f EXCEPT !.value = VNil] ELSE f,
                <<Logged(c)>>, c.world)
      Encoded(m) ==
        IF m.err.isErr THEN Outcome(NilF, m.err, VNil, f, <<>>, w)
        ELSE Called(ApiCall(f.api, "PATCH", f.Url \o <<"/">> \o path, f.Auth, m.body,
                            FALSE, params, net, w))
  IN Encoded(Marshal(value))

\* Update performs a partial update with the given value at the specified
\* path; an update of the root node clears the value
Update(f, path, value, params, net, w) ==
  LET Called(c) ==
        Outcome(NilF, c.err, VNil, IF Len(path) = 0 THEN [f EXCEPT !.value = VNil] ELSE f,
                <<Logged(c)>>, c.world)
      Encoded(m) ==
        IF m.err.isErr THEN Outcome(NilF, m.err, VNil, f, <<>>, w)
        ELSE Called(ApiCall(f.api, "PATCH", f.Url \o <<"/">> \o path, f.Auth, m.body,
                            FALSE, params, net, w))
  IN Encoded(Marshal(value))

\* Remove that drops the error of the call
RemoveSwallowsError(f, path, params, net, w) ==
  LET Called(c) == Outcome(NilF, NoErr, VNil, f, <<Logged(c)>>, c.world)
  IN Called(ApiCall(f.api, "DELETE", f.Url \o <<"/">> \o path, f.Auth, <<>>, TRUE,
                    params, net, w))

\* Remove deletes the data at the given path
Remove(f, path, params, net, w) ==
  LET Called(c) == Outcome(NilF, c.err, VNil, f, <<Logged(c)>>, c.world)
  IN Called(ApiCall(f.api, "DELETE", f.Url \o <<"/">> \o path, f.Auth, <<>>, TRUE,
                    params, net, w))

(***************************************************************************)
(* The inputs of the model.                                                *)
(***************************************************************************)
RootUrl == <<"H">>
RootAuth == <<"s">>
Paths == {<<>>, <<"a">>}
\* nil, a map holding a slice of every JSON form, and a channel
Values ==
  {VNil,
   VMap(<<<<"a">>>>,
        <<VSlice(<<VNil, VBool(TRUE), VFloat(1), VStr(<<"a", "\"">>)>>)>>),
   VChan}
\* the values a test stores in the in-memory Api: every JSON form, and an int
MemValues ==
  Values \cup {VFloat(10), VStr(<<"a", "\"", "\\">>), VInt(1)}
\* the params of an operation: a parameter with a space in it (Value passes
\* nil params itself)
ParamSets == {[k |-> << <<"q">> >>, e |-> << <<"a", " ", "b">> >>]}
\* the bodies of the responses: empty, null, a string, a push answer, no JSON
Bodies ==
  {<<>>, NullBody, <<"\"", "a", "\"">>,
   Encode(VMap(<<NameKey>>, <<VStr(<<"k", "1">>)>>)), <<"x">>}
Nets == {NetDoErr} \cup {NetResp(200, b) : b \in Bodies} \cup {NetResp(404, NullBody)}

\* the inputs of client.Call taken alone
Methods == {"GET", "POST", "PUT", "PATCH", "DELETE"}
CallPaths == {<<"H">>, <<"H", "/">>, <<"H", "/", "a">>}
CallAuths == {<<>>, <<"s">>}
CallParamSets ==
  {NoParams,
   [k |-> << <<"q">> >>, e |-> << <<"a", " ", "b">> >>],
   [k |-> << AuthKey >>, e |-> << <<"t">> >>],
   [k |-> << AuthKey, <<"q">> >>, e |-> << <<"t">>, <<"a", "&", "b", "=">> >>]}
CallNets ==
  {NetDoErr, NetReadErr}
    \cup {NetResp(st, b) : st \in {200, 399, 400, 404}, b \in {NullBody, <<"x">>}}

(***************************************************************************)
(* The state: the client Init made (root), the client the caller got last  *)
(* from Child, Push or Set and kept (cur), the in-memory Api (world), and   *)
(* the last operation with what it did (last).                             *)
(***************************************************************************)
VARIABLES root, cur, world, last
vars == <<root, cur, world, last>>

NoWorld == [store |-> NoParams, nextKey |-> 1]
NoOutcome == Outcome(NilF, NoErr, VNil, NilF, <<>>, NoWorld)

Op(op, r, path, value, params, before, o) ==
  [op |-> op, r |-> r, path |-> path, value |-> value, params |-> params,
   before |-> before, after |-> o.recv, ret |-> o.ret, err |-> o.err,
   val |-> o.val, calls |-> o.calls]

\* the number of "/" of a Url
RECURSIVE Depth(_)
Depth(u) ==
  IF u = <<>> THEN 0 ELSE (IF Head(u) = "/" THEN 1 ELSE 0) + Depth(Tail(u))

Recv(r) == IF r = "root" THEN root ELSE cur
\* the caller calls the client of Init and, over HTTP, the client it kept
Receivers == IF cur.isNil \/ root.api = "mem" THEN {"root"} ELSE {"root", "cur"}
\* the HTTP client meets the network; the in-memory Api looks at no params
NetsOf(f) == IF f.api = "client" THEN Nets ELSE {NoNet}
ParamsOf(f) == IF f.api = "client" THEN ParamSets ELSE {NoParams}
ValuesOf(f) == IF f.api = "client" THEN Values ELSE MemValues

\* Init initializes the Firebase client with a given root url and optional
\* auth token: a nil api is the HTTP client
InitF(root0, auth, api) ==
  MkF(root0, auth, IF api = "nil" THEN "client" ELSE api, VNil)

Init ==
  /\ root = InitF(RootUrl, RootAuth, "nil")
  /\ cur = NilF
  /\ world = NoWorld
  /\ last = Op("Init", "root", <<>>, VNil, NoParams, NilF, NoOutcome)

\* the same with the in-memory Api of a test
InitMem ==
  /\ root = InitF(RootUrl, RootAuth, "mem")
  /\ cur = NilF
  /\ world = NoWorld
  /\ last = Op("Init", "root", <<>>, VNil, NoParams, NilF, NoOutcome)

\* the state after an operation on receiver r with outcome o
Done(op, r, path, value, params, o) ==
  /\ last' = Op(op, r, path, value, params, Recv(r), o)
  /\ world' = o.world
  /\ root' = IF r = "root" THEN o.recv ELSE root
  /\ cur' = IF ~o.ret.isNil /\ Depth(o.ret.Url) <= MaxDepth THEN o.ret
            ELSE IF r = "cur" THEN o.recv ELSE cur

DoValue ==
  \E r \in Receivers : \E net \in NetsOf(Recv(r)) :
    Done("Value", r, <<>>, VNil, NoParams, Value(Recv(r), net, world))

DoChild ==
  \E r \in Receivers, path \in Paths :
    \E params \in ParamsOf(Recv(r)), net \in NetsOf(Recv(r)) :
      Done("Child", r, path, VNil, params, Child(Recv(r), path, params, net, world))

DoPush ==
  \E r \in Receivers : \E value \in ValuesOf(Recv(r)) :
    \E params \in ParamsOf(Recv(r)), net \in NetsOf(Recv(r)) :
      Done("Push", r, <<>>, value, params, Push(Recv(r), value, params, net, world))

DoSet ==
  \E r \in Receivers, path \in Paths : \E value \in ValuesOf(Recv(r)) :
    \E params \in ParamsOf(Recv(r)), net \in NetsOf(Recv(r)) :
      Done("Set", r, path, value, params,
           Set(Recv(r), path, value, params, net, world))

DoUpdate ==
  \E r \in Receivers, path \in Paths : \E value \in ValuesOf(Recv(r)) :
    \E params \in ParamsOf(Recv(r)), net \in NetsOf(Recv(r)) :
      Done("Update", r, path, value, params,
           Update(Recv(r), path, value, params, net, world))

DoRemove ==
  \E r \in Receivers, path \in Paths :
    \E params \in ParamsOf(Recv(r)), net \in NetsOf(Recv(r)) :
      Done("Remove", r, path, VNil, params,
           Remove(Recv(r), path, params, net, world))

Next == DoValue \/ DoChild \/ DoPush \/ DoSet \/ DoUpdate \/ DoRemove

\* the client over HTTP, and the client over the in-memory Api
Spec == Init /\ [][Next]_vars
SpecMem == InitMem /\ [][Next]_vars

\* client.Call taken alone, on every input.  Call keeps no state: one call
\* from the initial state shows all it does
DoCall ==
  /\ last.op = "Init"
  /\ \E method \in Methods, path \in CallPaths, auth \in CallAuths :
       \E params \in CallParamSets, net \in CallNets :
         LET nilBody == method \in {"GET", "DELETE"}
             Called(c) == Outcome(NilF, c.err, VNil, root, <<Logged(c)>>, world)
         IN /\ last' = Op("Call", "root", path, VNil, params, root,
                          Called(ApiCall("client", method, path, auth,
                                         IF nilBody THEN <<>> ELSE NullBody, nilBody,
                                         params, net, world)))
            /\ UNCHANGED <<root, cur, world>>

NextCall == DoCall
SpecCall == Init /\ [][NextCall]_vars

(***************************************************************************)
(* What the claims speak of.                                               *)
(***************************************************************************)
\* the one call of the last operation
TheCall == last.calls[1]
OneCall == Len(last.calls) = 1

\* a JSON-shaped value: null, bool, number, string, array, map
RECURSIVE JSONShaped(_)
JSONShaped(v) ==
  /\ v.t \in {"nil", "bool", "float64", "string", "slice", "map"}
  /\ \A i \in 1..Len(v.e) : JSONShaped(v.e[i])

\* the bodies of the model that are no JSON text
NoJSON == {<<>>, <<"x">>}

\* s cut at every c
RECURSIVE Split(_, _)
Split(s, c) ==
  LET i == IndexOf(s, c) IN
  IF i = 0 THEN <<s>> ELSE <<SubSeq(s, 1, i - 1)>> \o Split(Drop(s, i), c)

\* the character a %XY escape stands for
Unhex(x, y) ==
  CASE <<x, y>> = <<"2", "0">> -> " "
    [] <<x, y>> = <<"2", "2">> -> "\""
    [] <<x, y>> = <<"2", "5">> -> "%"
    [] <<x, y>> = <<"2", "6">> -> "&"
    [] <<x, y>> = <<"2", "B">> -> "+"
    [] <<x, y>> = <<"2", "F">> -> "/"
    [] <<x, y>> = <<"3", "D">> -> "="
    [] <<x, y>> = <<"3", "F">> -> "?"
    [] OTHER -> "x"

\* a query component read back: "+" is a space, %XY a character
RECURSIVE Unescape(_)
Unescape(s) ==
  IF s = <<>> THEN <<>>
  ELSE IF Head(s) = "+" THEN <<" ">> \o Unescape(Tail(s))
  ELSE IF Head(s) = "%" /\ Len(s) >= 3 THEN <<Unhex(s[2], s[3])>> \o Unescape(Drop(s, 3))
  ELSE <<Head(s)>> \o Unescape(Tail(s))

\* the keys and values of a query string, as a server reads them
RECURSIVE ReadPairs(_, _)
ReadPairs(pairs, acc) ==
  IF pairs = <<>> THEN acc
  ELSE LET kv == Head(pairs)
           i == IndexOf(kv, "=")
           k == Unescape(IF i = 0 THEN kv ELSE SubSeq(kv, 1, i - 1))
           v == Unescape(IF i = 0 THEN <<>> ELSE Drop(kv, i))
       IN ReadPairs(Tail(pairs), MapPut(acc.k, acc.e, k, v))

\* the address of a request before its query string, and its query
AddressOf(url) ==
  IF IndexOf(url, "?") = 0 THEN url ELSE SubSeq(url, 1, IndexOf(url, "?") - 1)
QueryOf(url) ==
  IF IndexOf(url, "?") = 0 THEN NoParams
  ELSE ReadPairs(Split(Drop(url, IndexOf(url, "?")), "&"), NoParams)

(***************************************************************************)
(* C1.  Value() populates the receiver's cache on first read.              *)
(***************************************************************************)
\* C1 (as claimed): a Value() call on a client without a value, whose GET of
\* its own address (empty child path) yields a value that is not null,
\* returns that value and leaves it as the value of the receiver.
C1_ValueStoresInReceiver ==
  (/\ last.op = "Value"
   /\ last.before.value = VNil
   /\ OneCall
   /\ last.val # VNil)
  => /\ TheCall.method = "GET"
     /\ TheCall.path = last.before.Url \o <<"/">>
     /\ last.after.value = last.val

(***************************************************************************)
(* C2.  Update with an empty path clears the receiver's value.             *)
(***************************************************************************)
\* C2 (as claimed): after any Update("", v) on a client that holds a value,
\* the value of the receiver is absent.
C2_AnyUpdateRootClears ==
  (last.op = "Update" /\ last.path = <<>> /\ last.before.value # VNil)
  => last.after.value = VNil

\* what a GET through Child yields for Value: the decoded value, nil when
\* the call fails or the body is no JSON
Yield(c) == IF c.err.isErr \/ c.res \in NoJSON THEN VNil ELSE Unmarshal(c.res).v

\* C2 (amended): after an Update("", v) whose v json.Marshal accepts, the
\* value of the receiver is absent whatever the Api answered, and a Value()
\* call that comes next on that receiver issues one GET and returns what that
\* read yields; a Value() on any client without a value does so.
C2_UpdateRootClearsValue ==
  /\ [](/\ (last.op = "Update" /\ last.path = <<>> /\ Marshalable(last.value))
             => (OneCall /\ last.after.value = VNil)
        /\ (last.op = "Value" /\ last.before.value = VNil)
             => (/\ OneCall
                 /\ TheCall.method = "GET"
                 /\ last.val = Yield(TheCall)))
  /\ [][(/\ last.op = "Update" /\ last.path = <<>> /\ Marshalable(last.value)
         /\ last'.op = "Value" /\ last'.r = last.r)
        => (/\ last'.before = last.after
            /\ Len(last'.calls) = 1
            /\ last'.calls[1].method = "GET"
            /\ last'.val = Yield(last'.calls[1]))]_vars

\* an Update("", v) made its PATCH and cleared the value of a client
C2_Witness ==
  /\ last.op = "Update" /\ last.path = <<>>
  /\ last.before.value # VNil /\ last.after.value = VNil
  /\ OneCall /\ TheCall.method = "PATCH"

(***************************************************************************)
(* C3.  Set and Child round trip over the in-memory Api.                   *)
(***************************************************************************)
\* C3: over the in-memory Api, a Child(path) that comes right after a
\* Set(path, v) on the same client, v JSON-shaped, returns a client that is
\* not nil, whose Url is the Url of the receiver, "/" and path, and whose
\* value is v.
C3_SetChildRoundTrip ==
  [][(/\ root.api = "mem"
      /\ last.op = "Set" /\ JSONShaped(last.value)
      /\ last'.op = "Child" /\ last'.r = last.r /\ last'.path = last.path)
     => (/\ ~last'.ret.isNil
         /\ last'.ret.Url = last.before.Url \o <<"/">> \o last.path
         /\ last'.ret.value = last.value)]_vars

\* Child read back a map that holds a slice, as the store has it
C3_Witness ==
  /\ root.api = "mem"
  /\ last.op = "Child" /\ ~last.ret.isNil
  /\ last.ret.value.t = "map" /\ Len(last.ret.value.e) = 1
  /\ last.ret.value.e[1].t = "slice"
  /\ HasKey(world.store, last.ret.Url)
  /\ MapGet(world.store, last.ret.Url) = TheCall.res

(***************************************************************************)
(* C4.  Push returns the client of the generated key.                      *)
(***************************************************************************)
\* C4: over the in-memory Api, which answers every POST with a new key, a
\* Push that returns no error made one POST to the Url of the receiver and
\* returns a client whose Url is that Url, "/" and the key of the answer,
\* with the pushed value as its value; two Push calls in a row on the same
\* client return clients of different Urls.
C4_PushReturnsKeyedClient ==
  /\ []((last.op = "Push" /\ ~last.err.isErr)
          => (/\ OneCall
              /\ TheCall.method = "POST"
              /\ TheCall.path = last.before.Url
              /\ ~last.ret.isNil
              /\ last.ret.Url
                   = last.before.Url \o <<"/">> \o PushKey(world.nextKey - 1)
              /\ last.ret.value = last.value))
  /\ [][(/\ last.op = "Push" /\ ~last.err.isErr
         /\ last'.op = "Push" /\ ~last'.err.isErr /\ last'.r = last.r)
        => last'.ret.Url # last.ret.Url]_vars

\* the second key was handed out to a Push
C4_Witness ==
  /\ root.api = "mem"
  /\ last.op = "Push" /\ ~last.err.isErr
  /\ last.ret.Url = RootUrl \o <<"/">> \o PushKey(2)

(***************************************************************************)
(* C5.  Remove issues one DELETE and returns the error of the Api.         *)
(***************************************************************************)
\* C5: Remove(path, params) makes one call to the Api, a DELETE of the Url
\* of the receiver, "/" and path, with its Auth, a nil body and params, and
\* returns the error of that call: nil when the call succeeded.
C5_RemoveIssuesOneDelete ==
  last.op = "Remove"
  => /\ OneCall
     /\ TheCall.method = "DELETE"
     /\ TheCall.path = last.before.Url \o <<"/">> \o last.path
     /\ TheCall.auth = last.before.Auth
     /\ TheCall.nilBody
     /\ TheCall.params = last.params
     /\ last.err = TheCall.err
     /\ (TheCall.net.kind = "resp" /\ TheCall.net.status < 400) => ~last.err.isErr
     /\ (TheCall.net.kind = "resp" /\ TheCall.net.status >= 400)
          => last.err = Err(TheCall.net.body)

\* a Remove met a 404 and returned its error
C5_Witness ==
  /\ last.op = "Remove"
  /\ TheCall.net = NetResp(404, NullBody)
  /\ last.err = Err(NullBody)

(***************************************************************************)
(* C6.  No client is returned on failure.                                  *)
(***************************************************************************)
\* C6: Push and Set return a client and no error, or no client and an
\* error; Child returns nil when the call to the Api returned an error (a
\* 404 with the body null is one) or the body of the answer is no JSON, and
\* a client otherwise.
C6_NoClientOnFailure ==
  /\ last.op \in {"Push", "Set"} => (last.ret.isNil <=> last.err.isErr)
  /\ last.op = "Child"
       => /\ OneCall
          /\ last.ret.isNil <=> (TheCall.err.isErr \/ TheCall.res \in NoJSON)
          /\ (TheCall.net.kind \in {"doerr", "readerr"}) => last.ret.isNil
          /\ (TheCall.net.kind = "resp" /\ TheCall.net.status >= 400) => last.ret.isNil

\* Child met a 404 with the body null and returned nil
C6_Witness ==
  /\ last.op = "Child"
  /\ TheCall.net = NetResp(404, NullBody)
  /\ last.ret.isNil

(***************************************************************************)
(* C7.  The address and the query of the HTTP request.                     *)
(***************************************************************************)
\* C7: the address of the request of a Call ends in ".json" before any
\* query string; the query holds every key of params with the value of the
\* caller; its key auth holds the value of params when params has that key,
\* the auth token when it is not empty and params has no such key, and is
\* absent when the token is empty and params has no such key.
C7_RequestAddress ==
  last.op = "Call"
  => LET c == TheCall
         q == QueryOf(c.url)
     IN /\ HasSuffix(AddressOf(c.url), suffix)
        /\ \A i \in 1..Len(c.params.k) :
             HasKey(q, c.params.k[i]) /\ MapGet(q, c.params.k[i]) = c.params.e[i]
        /\ (Len(c.auth) > 0 /\ ~HasKey(c.params, AuthKey))
             => (HasKey(q, AuthKey) /\ MapGet(q, AuthKey) = c.auth)
        /\ HasKey(c.params, AuthKey)
             => (HasKey(q, AuthKey) /\ MapGet(q, AuthKey) = MapGet(c.params, AuthKey))
        /\ (Len(c.auth) = 0 /\ ~HasKey(c.params, AuthKey)) => ~HasKey(q, AuthKey)

\* a call with a token and params that bring an auth of their own
C7_Witness ==
  /\ last.op = "Call"
  /\ TheCall.auth = <<"s">>
  /\ HasKey(TheCall.params, AuthKey) /\ HasKey(TheCall.params, <<"q">>)
  /\ MapGet(QueryOf(TheCall.url), AuthKey) = <<"t">>
  /\ Len(QueryOf(TheCall.url).k) = 2

(***************************************************************************)
(* C8.  The status of the HTTP response.                                   *)
(***************************************************************************)
\* C8: when the body of the response has been read, Call returns nil bytes
\* and an error whose message is the body if and only if the status is 400
\* or more, and the body and a nil error for a status below 400.
C8_StatusMapping ==
  (last.op = "Call" /\ TheCall.net.kind = "resp")
  => LET c == TheCall IN
     /\ (c.net.status >= 400) <=> c.err.isErr
     /\ c.err.isErr => (c.nilRes /\ c.res = <<>> /\ c.err.msg = c.net.body)
     /\ ~c.err.isErr => (~c.nilRes /\ c.res = c.net.body)

\* a 404 with the body null is the error "null"
C8_Witness ==
  /\ last.op = "Call"
  /\ TheCall.net = NetResp(404, NullBody)
  /\ TheCall.err = Err(<<"n", "u", "l", "l">>)
  /\ TheCall.nilRes

(***************************************************************************)
(* C9.  When Update touches the value of the receiver.                     *)
(***************************************************************************)
\* C9 (as claimed): an Update that returns an error, whatever its path,
\* leaves the value of the receiver as it was, and so does an Update with a
\* path that is not empty.
C9_FailedUpdateKeepsValue ==
  (last.op = "Update" /\ (last.err.isErr \/ last.path # <<>>))
  => last.after.value = last.before.value

\* C9 (amended): an Update with the empty path whose value json.Marshal
\* accepts clears the value of the receiver, whether the call to the Api
\* succeeds or fails; an Update whose value json.Marshal rejects, and an
\* Update with a path that is not empty, leave it as it was.  Nothing else
\* of the receiver changes.
C9_UpdateClearsOnceCalled ==
  last.op = "Update"
  => /\ last.after.value
          = (IF last.path = <<>> /\ OneCall THEN VNil ELSE last.before.value)
     /\ OneCall <=> Marshalable(last.value)
     /\ last.after = [last.before EXCEPT !.value = last.after.value]

\* an Update("", v) that the Api refused cleared a value
C9_Witness ==
  /\ last.op = "Update" /\ last.path = <<>>
  /\ last.err.isErr /\ OneCall
  /\ last.before.value # VNil /\ last.after.value = VNil

(***************************************************************************)
(* C10.  Child, Push, Set and Remove leave the receiver alone.             *)
(***************************************************************************)
\* C10: after Child, Push, Set or Remove, failed or not, the Url, Auth, api
\* and value of the receiver are what they were, and a client they return
\* has the Auth and the api of the receiver; the client of Init keeps its
\* Url, Auth and api for good.
C10_ReceiverUnchanged ==
  /\ last.op \in {"Child", "Push", "Set", "Remove"}
       => /\ last.after = last.before
          /\ ~last.ret.isNil
               => (last.ret.Auth = last.before.Auth /\ last.ret.api = last.before.api)
  /\ root.Url = RootUrl /\ root.Auth = RootAuth /\ root.api = "client"
  /\ ~cur.isNil => (cur.Auth = root.Auth /\ cur.api = root.api)

\* a client that holds a value made a Set that returned another client
C10_Witness ==
  /\ last.op = "Set" /\ last.r = "cur"
  /\ last.before.value # VNil
  /\ ~last.ret.isNil /\ last.ret.value # last.before.value
====
